---- MODULE Spec2Model ----
(***************************************************************************)
(* Model of the ERA5 feature pipeline:                                     *)
(*   02_data_aggregation.py              next-day targets, window builder  *)
(*   04_build_global_window_features.py  process_group, main (chunked I/O) *)
(*                                                                         *)
(* Numbers.  A mean is kept exactly as the pair <<sum, count>>; a          *)
(* population standard deviation as <<count*sumsq - sum^2, count>>, i.e.   *)
(* std = sqrt(first)/second.  A table cell that may be missing is <<>>     *)
(* (NaN) or <<v>>.  Positions follow Python: iloc and slices are 0-based.  *)
(***************************************************************************)
EXTENDS Integers, Sequences, FiniteSets, TLC

VARIABLES
    df,                   \* the table a stage works on (04: line 59; builders: argument)
    window_size,          \* WINDOW_SIZE / the window_size argument
    pc,                   \* position of the running script
    gi,                   \* position of the groupby iteration (1-based, next group)
    input_file,           \* era5_all_daily_features.csv on disk
    output_file,          \* era5_all_window_features.csv on disk
    buffer,               \* 04 main: list of per-location frames not yet written
    total_rows,           \* 04 main: rows written so far
    error,                \* exception that ended the script, <<>> if none
    run_count,            \* completed runs of 04 main
    first_output,         \* output_file as the first completed run left it
    pg_out,               \* results of the process_group calls, one per location
    agg_out,              \* result of create_window_features_aggregated
    daily_stats,          \* 02: daily table (lines 99-115)
    daily_stats_complete, \* 02: daily table after dropna (line 118)
    window_out            \* 02: merged window table (line 138)

vars == <<df, window_size, pc, gi, input_file, output_file, buffer, total_rows,
          error, run_count, first_output, pg_out, agg_out, daily_stats,
          daily_stats_complete, window_out>>

----------------------------------------------------------------------------
(* Bounds of the model *)

MaxDate == 4
MaxRows == 4
MaxW == 3
MaxRuns == 2
CHUNK_SAVE_SIZE == 2

Locations == {<<10, 20>>, <<10, 30>>}
Dates == 1..MaxDate
Keys == Locations \X Dates

INPUT_FILE == "era5_all_daily_features.csv"
OUTPUT_FILE == "era5_all_window_features.csv"

feature_cols == <<"t2m_min", "t2m_max", "t2m_mean">>
target_cols == <<"t2m_min_next", "t2m_max_next", "t2m_mean_next">>

NaN == <<>>
isnan(cell) == cell = NaN

----------------------------------------------------------------------------
(* Generic sequence helpers *)

ToSet(s) == {s[k] : k \in DOMAIN s}

Max2(a, b) == IF a >= b THEN a ELSE b

RECURSIVE Sum(_)
Sum(s) == IF s = <<>> THEN 0 ELSE Head(s) + Sum(Tail(s))

RECURSIVE SumSq(_)
SumSq(s) == IF s = <<>> THEN 0 ELSE Head(s) * Head(s) + SumSq(Tail(s))

RECURSIVE MinOf(_)
MinOf(s) ==
    IF Len(s) = 1 THEN s[1]
    ELSE LET m == MinOf(Tail(s)) IN IF s[1] <= m THEN s[1] ELSE m

RECURSIVE MaxOf(_)
MaxOf(s) ==
    IF Len(s) = 1 THEN s[1]
    ELSE LET m == MaxOf(Tail(s)) IN IF s[1] >= m THEN s[1] ELSE m

RECURSIVE Flatten(_)
Flatten(ss) == IF ss = <<>> THEN <<>> ELSE Head(ss) \o Flatten(Tail(ss))

RECURSIVE SetToSeq(_)
SetToSeq(S) ==
    IF S = {} THEN <<>>
    ELSE LET e == CHOOSE e \in S : TRUE IN <<e>> \o SetToSeq(S \ {e})

Reverse(s) == [k \in 1..Len(s) |-> s[Len(s) + 1 - k]]

\* Python: range(a, b)
Range(a, b) == [k \in 1..(b - a) |-> a + k - 1]

\* Python / pandas: s.iloc[i], s[a:b], s[-3:]
iloc(s, i) == s[i + 1]
Slice(s, a, b) == SubSeq(s, a + 1, b)
Last3(s) == SubSeq(s, Max2(1, Len(s) - 2), Len(s))

\* numpy: np.mean, np.std (population), kept exact
np_mean(vals) == <<Sum(vals), Len(vals)>>
np_std(vals) == <<Len(vals) * SumSq(vals) - Sum(vals) * Sum(vals), Len(vals)>>

----------------------------------------------------------------------------
(* pandas: sort_values, groupby(sort=False) *)

RECURSIVE LexLess(_, _, _)
LexLess(a, b, by) ==
    IF by = <<>> THEN FALSE
    ELSE IF a[Head(by)] < b[Head(by)] THEN TRUE
    ELSE IF a[Head(by)] > b[Head(by)] THEN FALSE
    ELSE LexLess(a, b, Tail(by))

RECURSIVE InsertSorted(_, _, _)
InsertSorted(s, r, by) ==
    IF s = <<>> THEN <<r>>
    ELSE IF LexLess(r, Head(s), by) THEN <<r>> \o s
    ELSE <<Head(s)>> \o InsertSorted(Tail(s), r, by)

RECURSIVE sort_values(_, _)
sort_values(s, by) ==
    IF s = <<>> THEN <<>>
    ELSE InsertSorted(sort_values(SubSeq(s, 1, Len(s) - 1), by), s[Len(s)], by)

LocOf(r) == <<r.latitude, r.longitude>>

\* group keys in order of first appearance (sort=False)
RECURSIVE GroupKeys(_)
GroupKeys(s) ==
    IF s = <<>> THEN <<>>
    ELSE LET rest == GroupKeys(SubSeq(s, 1, Len(s) - 1))
             k == LocOf(s[Len(s)])
         IN IF k \in ToSet(rest) THEN rest ELSE Append(rest, k)

IsAt(r, loc) == LocOf(r) = loc

RECURSIVE GroupOf(_, _)
GroupOf(s, loc) ==
    IF s = <<>> THEN <<>>
    ELSE IF IsAt(Head(s), loc) THEN <<Head(s)>> \o GroupOf(Tail(s), loc)
    ELSE GroupOf(Tail(s), loc)

Column(s, c) == [k \in 1..Len(s) |-> s[k].x[c]]

----------------------------------------------------------------------------
(* 04_build_global_window_features.py: process_group *)

Recent3dApplies_gt(vals) == Len(vals) > 3

\* line 44: if len(vals) >= 3
Recent3dApplies(vals) == Len(vals) >= 3

\* lines 36-45: the statistics of one feature column over one window
ColumnStats(vals) ==
    LET base == [mean |-> np_mean(vals),
                 std |-> np_std(vals),
                 min |-> MinOf(vals),
                 max |-> MaxOf(vals),
                 first |-> vals[1],
                 last |-> vals[Len(vals)],
                 trend |-> vals[Len(vals)] - vals[1]]
    IN IF Recent3dApplies(vals)
       THEN base @@ ("recent_3d" :> np_mean(Last3(vals)))
       ELSE base

WindowAt_leaky(group, i, w) == Slice(group, i - w + 1, i + 1)

\* line 29: window = group.iloc[i - window_size:i]
WindowAt(group, i, w) == Slice(group, i - w, i)

ProcessGroupIndices_skip(group, w) == Range(w + 1, Len(group))

\* line 28: range(window_size, len(group))
ProcessGroupIndices(group, w) == Range(w, Len(group))

\* lines 29-50: the row of position i
ProcessGroupRow(lat, lon, group, i, w, fcols, tcols) ==
    LET window == WindowAt(group, i, w)
    IN [date |-> iloc(group, i).date,
        latitude |-> lat,
        longitude |-> lon,
        stats |-> [c \in ToSet(fcols) |-> ColumnStats(Column(window, c))],
        y |-> [c \in ToSet(tcols) |-> iloc(group, i).y[c]]]

process_group(lat, lon, group0, w, fcols, tcols) ==
    LET group == sort_values(group0, <<"date">>)
    IN IF Len(group) <= w THEN <<>>
       ELSE LET idx == ProcessGroupIndices(group, w)
            IN [k \in 1..Len(idx) |->
                   ProcessGroupRow(lat, lon, group, idx[k], w, fcols, tcols)]

----------------------------------------------------------------------------
(* 02_data_aggregation.py: create_window_features_aggregated *)

\* lines 55-64
AggColumnStats(window_vals, w) ==
    LET base == [mean |-> np_mean(window_vals),
                 std |-> np_std(window_vals),
                 min |-> MinOf(window_vals),
                 max |-> MaxOf(window_vals),
                 last |-> window_vals[Len(window_vals)],
                 first |-> window_vals[1],
                 trend |-> window_vals[Len(window_vals)] - window_vals[1]]
    IN IF w >= 3
       THEN base @@ ("recent_3d" :> np_mean(Last3(window_vals)))
       ELSE base

\* lines 46-51, 54-64: feature_row of position i
AggFeatureRow(lat, lon, group, i, w, fcols) ==
    LET window == Slice(group, i - w, i)
    IN [date |-> iloc(group, i).date,
        latitude |-> lat,
        longitude |-> lon,
        stats |-> [c \in ToSet(fcols) |-> AggColumnStats(Column(window, c), w)]]

\* line 66: y_target = group[target_cols].iloc[i].values
AggTarget(group, i, tcols) == [c \in ToSet(tcols) |-> iloc(group, i).y[c]]

\* line 67: np.any(np.isnan(y_target))
AnyNaN(y) == \E c \in DOMAIN y : isnan(y[c])

\* lines 45-69: positions of one group whose row is kept
RECURSIVE AggKept(_, _, _)
AggKept(group, idx, tcols) ==
    IF idx = <<>> THEN <<>>
    ELSE IF ~AnyNaN(AggTarget(group, Head(idx), tcols))
         THEN <<Head(idx)>> \o AggKept(group, Tail(idx), tcols)
         ELSE AggKept(group, Tail(idx), tcols)

\* lines 41-69: one iteration of the groupby loop
AggGroup(lat, lon, group0, w, fcols, tcols) ==
    LET group == sort_values(group0, <<"date">>)
    IN IF Len(group) <= w THEN <<>>
       ELSE AggKept(group, Range(w, Len(group)), tcols)

create_window_features_aggregated(d, w, fcols, tcols) ==
    LET keys == GroupKeys(d)
        sorted(k) == sort_values(GroupOf(d, keys[k]), <<"date">>)
        kept(k) == AggGroup(keys[k][1], keys[k][2], GroupOf(d, keys[k]), w, fcols, tcols)
        features_list ==
            Flatten([k \in 1..Len(keys) |->
                [j \in 1..Len(kept(k)) |->
                    AggFeatureRow(keys[k][1], keys[k][2], sorted(k), kept(k)[j], w, fcols)]])
        targets_list ==
            Flatten([k \in 1..Len(keys) |->
                [j \in 1..Len(kept(k)) |-> AggTarget(sorted(k), kept(k)[j], tcols)]])
    IN [X |-> features_list, y |-> targets_list]

\* line 138: merged = pd.concat([X_agg, y_agg], axis=1)
MergeXY(r) ==
    [k \in 1..Len(r.X) |->
        [date |-> r.X[k].date,
         latitude |-> r.X[k].latitude,
         longitude |-> r.X[k].longitude,
         stats |-> r.X[k].stats,
         y |-> r.y[k]]]

----------------------------------------------------------------------------
(* Input tables *)

\* the reading of a grid cell on a day: distinct per record, not monotone in date
BaseReading(loc, date) == 100 * loc[2] + 10 * ((3 * date) % 7)

Reading(c, loc, date) ==
    CASE c = "t2m_min" -> BaseReading(loc, date) - 2
      [] c = "t2m_max" -> BaseReading(loc, date) + 3
      [] c = "t2m_mean" -> BaseReading(loc, date)

NextOf(c) ==
    CASE c = "t2m_min" -> "t2m_min_next"
      [] c = "t2m_max" -> "t2m_max_next"
      [] c = "t2m_mean" -> "t2m_mean_next"

StatOf(t) == CHOOSE c \in ToSet(feature_cols) : NextOf(c) = t

\* a daily record; nulls is the set of its target columns that are missing
DailyRecord(key, nulls) ==
    [date |-> key[2],
     latitude |-> key[1][1],
     longitude |-> key[1][2],
     x |-> [c \in ToSet(feature_cols) |-> Reading(c, key[1], key[2])],
     y |-> [t \in ToSet(target_cols) |->
              IF t \in nulls THEN NaN ELSE <<Reading(StatOf(t), key[1], key[2]) + 5>>]]

\* the target columns a record with missing targets lacks
NullCols == {"t2m_mean_next"}

\* row orders of a table: as stage 3 writes it, and latest date first with the
\* locations interleaved
Orderings == {"location_date", "date_descending"}

Ordered(rows, o) ==
    CASE o = "location_date" -> sort_values(rows, <<"latitude", "longitude", "date">>)
      [] o = "date_descending" ->
            Reverse(sort_values(rows, <<"date", "latitude", "longitude">>))

KeySets == {K \in SUBSET Keys : Cardinality(K) <= MaxRows}

\* tables whose targets are all present
CompleteTable(K, o) == Ordered(SetToSeq({DailyRecord(k, {}) : k \in K}), o)

\* tables where the records of NK miss the targets NullCols
Table(K, NK, o) ==
    Ordered(SetToSeq({DailyRecord(k, IF k \in NK THEN NullCols ELSE {}) : k \in K}), o)

NoFile == [exists |-> FALSE, header |-> 0, rows |-> <<>>]

----------------------------------------------------------------------------
(* Calls of the two window builders on one table *)

InitBuild ==
    /\ \E K \in KeySets : \E NK \in SUBSET K : \E o \in Orderings :
          df = Table(K, NK, o)
    /\ window_size \in 1..MaxW
    /\ pc = "build"
    /\ gi = 1
    /\ input_file = NoFile
    /\ output_file = NoFile
    /\ buffer = <<>>
    /\ total_rows = 0
    /\ error = <<>>
    /\ run_count = 0
    /\ first_output = NoFile
    /\ pg_out = <<>>
    /\ agg_out = <<>>
    /\ daily_stats = <<>>
    /\ daily_stats_complete = <<>>
    /\ window_out = <<>>

\* 04 lines 74-75: the next location's process_group call
CallProcessGroup ==
    /\ pc = "build"
    /\ gi <= Len(GroupKeys(df))
    /\ LET loc == GroupKeys(df)[gi]
       IN pg_out' = Append(pg_out,
              [latitude |-> loc[1],
               longitude |-> loc[2],
               out_df |-> process_group(loc[1], loc[2], GroupOf(df, loc), window_size,
                                        feature_cols, target_cols)])
    /\ gi' = gi + 1
    /\ UNCHANGED <<df, window_size, pc, input_file, output_file, buffer, total_rows,
                   error, run_count, first_output, agg_out, daily_stats,
                   daily_stats_complete, window_out>>

\* 02 lines 132-138 on the same table
CallAggregated ==
    /\ pc = "build"
    /\ gi > Len(GroupKeys(df))
    /\ agg_out' = MergeXY(create_window_features_aggregated(
                              df, window_size, feature_cols, target_cols))
    /\ pc' = "built"
    /\ UNCHANGED <<df, window_size, gi, input_file, output_file, buffer, total_rows,
                   error, run_count, first_output, pg_out, daily_stats,
                   daily_stats_complete, window_out>>

NextBuild == CallProcessGroup \/ CallAggregated

SpecBuild == InitBuild /\ [][NextBuild]_vars

----------------------------------------------------------------------------
(* 04_build_global_window_features.py: main *)

\* line 83: astype float64 -> float32; f32(v) stands for v rounded to single precision
f32(v) == [float32 |-> v]

astype_float32(row) ==
    [date |-> row.date,
     latitude |-> f32(row.latitude),
     longitude |-> f32(row.longitude),
     stats |-> [c \in DOMAIN row.stats |->
                  [s \in DOMAIN row.stats[c] |-> f32(row.stats[c][s])]],
     y |-> [t \in DOMAIN row.y |-> IF isnan(row.y[t]) THEN NaN ELSE f32(row.y[t])]]

\* lines 82-83, 91-92: pd.concat(buffer) and the narrowing
Merged(buf) == LET all == Flatten(buf) IN [k \in 1..Len(all) |-> astype_float32(all[k])]

\* lines 84, 93: to_csv(OUTPUT_FILE, mode='a', header=not os.path.exists(OUTPUT_FILE))
to_csv(file, frame) ==
    IF file.exists
    THEN [exists |-> TRUE, header |-> file.header, rows |-> file.rows \o frame]
    ELSE [exists |-> TRUE, header |-> 1, rows |-> frame]

\* line 81: sum(len(b) for b in buffer)
BufferedRows(buf) == Len(Flatten(buf))

ShouldFlush_gt(buf) == BufferedRows(buf) > CHUNK_SAVE_SIZE

\* line 81: >= CHUNK_SAVE_SIZE
ShouldFlush(buf) == BufferedRows(buf) >= CHUNK_SAVE_SIZE

\* an output file left behind by an earlier run over an older input
StaleOutput ==
    to_csv(NoFile,
           Merged(<<process_group(10, 20,
                                  CompleteTable({<<10, 20>>} \X {1, 2}, "location_date"),
                                  1, feature_cols, target_cols)>>))

MissingInputError ==
    [type |-> "FileNotFoundError",
     message |-> <<INPUT_FILE, " not found. Run ", "03_concat_daily_features.py", " first.">>]

Init ==
    /\ \/ input_file = NoFile
       \/ \E K \in KeySets : \E o \in Orderings :
             input_file = [exists |-> TRUE, header |-> 1, rows |-> CompleteTable(K, o)]
    /\ output_file \in {NoFile, StaleOutput}
    /\ window_size \in 1..MaxW
    /\ df = <<>>
    /\ pc = "start"
    /\ gi = 1
    /\ buffer = <<>>
    /\ total_rows = 0
    /\ error = <<>>
    /\ run_count = 0
    /\ first_output = NoFile
    /\ pg_out = <<>>
    /\ agg_out = <<>>
    /\ daily_stats = <<>>
    /\ daily_stats_complete = <<>>
    /\ window_out = <<>>

MainStart_remove_first ==
    /\ pc = "start"
    /\ output_file' = NoFile
    /\ IF ~input_file.exists
       THEN /\ error' = MissingInputError
            /\ pc' = "aborted"
            /\ UNCHANGED <<df, buffer, total_rows, gi>>
       ELSE /\ df' = input_file.rows
            /\ buffer' = <<>>
            /\ total_rows' = 0
            /\ gi' = 1
            /\ pc' = "loop"
            /\ UNCHANGED error
    /\ UNCHANGED <<window_size, input_file, run_count, first_output, pg_out, agg_out,
                   daily_stats, daily_stats_complete, window_out>>

\* lines 56-73: input check, load, removal of an old output, empty buffer
MainStart ==
    /\ pc = "start"
    /\ IF ~input_file.exists
       THEN /\ error' = MissingInputError
            /\ pc' = "aborted"
            /\ UNCHANGED <<df, output_file, buffer, total_rows, gi>>
       ELSE /\ df' = input_file.rows
            /\ output_file' = NoFile
            /\ buffer' = <<>>
            /\ total_rows' = 0
            /\ gi' = 1
            /\ pc' = "loop"
            /\ UNCHANGED error
    /\ UNCHANGED <<window_size, input_file, run_count, first_output, pg_out, agg_out,
                   daily_stats, daily_stats_complete, window_out>>

\* lines 74-78: next location, process_group, skip an empty frame or buffer it
MainAccumulate ==
    /\ pc = "loop"
    /\ gi <= Len(GroupKeys(df))
    /\ LET loc == GroupKeys(df)[gi]
           out_df == process_group(loc[1], loc[2], GroupOf(df, loc), window_size,
                                   feature_cols, target_cols)
       IN IF out_df = <<>>
          THEN /\ gi' = gi + 1
               /\ UNCHANGED <<buffer, pc>>
          ELSE /\ buffer' = Append(buffer, out_df)
               /\ pc' = "check"
               /\ UNCHANGED gi
    /\ UNCHANGED <<df, window_size, input_file, output_file, total_rows, error,
                   run_count, first_output, pg_out, agg_out, daily_stats,
                   daily_stats_complete, window_out>>

\* lines 81-87: periodic write
MainFlush ==
    /\ pc = "check"
    /\ IF ShouldFlush(buffer)
       THEN /\ output_file' = to_csv(output_file, Merged(buffer))
            /\ total_rows' = total_rows + Len(Merged(buffer))
            /\ buffer' = <<>>
       ELSE UNCHANGED <<output_file, total_rows, buffer>>
    /\ gi' = gi + 1
    /\ pc' = "loop"
    /\ UNCHANGED <<df, window_size, input_file, error, run_count, first_output,
                   pg_out, agg_out, daily_stats, daily_stats_complete, window_out>>

\* lines 89-97: final flush
MainFinal ==
    /\ pc = "loop"
    /\ gi > Len(GroupKeys(df))
    /\ IF buffer # <<>>
       THEN /\ output_file' = to_csv(output_file, Merged(buffer))
            /\ total_rows' = total_rows + Len(Merged(buffer))
       ELSE UNCHANGED <<output_file, total_rows>>
    /\ pc' = "done"
    /\ run_count' = run_count + 1
    /\ first_output' = IF run_count = 0 THEN output_file' ELSE first_output
    /\ UNCHANGED <<df, window_size, gi, input_file, buffer, error, pg_out, agg_out,
                   daily_stats, daily_stats_complete, window_out>>

\* the script is started again on the same input
Rerun ==
    /\ pc = "done"
    /\ run_count < MaxRuns
    /\ pc' = "start"
    /\ df' = <<>>
    /\ buffer' = <<>>
    /\ total_rows' = 0
    /\ gi' = 1
    /\ UNCHANGED <<window_size, input_file, output_file, error, run_count,
                   first_output, pg_out, agg_out, daily_stats, daily_stats_complete,
                   window_out>>

Next == MainStart \/ MainAccumulate \/ MainFlush \/ MainFinal \/ Rerun

Spec == Init /\ [][Next]_vars

----------------------------------------------------------------------------
(* 02_data_aggregation.py: next-day targets (lines 97-138) *)

\* a row of daily_stats before the targets exist (lines 99-102)
DailyStat(key) ==
    [date |-> key[2],
     latitude |-> key[1][1],
     longitude |-> key[1][2],
     x |-> [c \in ToSet(feature_cols) |-> Reading(c, key[1], key[2])]]

ShiftNext_ungrouped(s, k, c) == IF k = Len(s) THEN NaN ELSE <<s[k + 1].x[c]>>

\* line 113: groupby(['latitude', 'longitude'])[col].shift(-1), at row k
ShiftNext(s, k, c) ==
    LET later == {j \in (k + 1)..Len(s) : LocOf(s[j]) = LocOf(s[k])}
    IN IF later = {} THEN NaN
       ELSE <<s[CHOOSE j \in later : \A i \in later : j <= i].x[c]>>

\* line 118: dropna(subset=target_cols)
RECURSIVE dropna(_, _)
dropna(s, subset) ==
    IF s = <<>> THEN <<>>
    ELSE IF \E t \in ToSet(subset) : isnan(Head(s).y[t])
         THEN dropna(Tail(s), subset)
         ELSE <<Head(s)>> \o dropna(Tail(s), subset)

InitStage2 ==
    /\ \E K \in KeySets :
          daily_stats = sort_values(SetToSeq({DailyStat(k) : k \in K}),
                                    <<"date", "latitude", "longitude">>)
    /\ window_size \in 1..MaxW
    /\ pc = "targets"
    /\ df = <<>>
    /\ gi = 1
    /\ input_file = NoFile
    /\ output_file = NoFile
    /\ buffer = <<>>
    /\ total_rows = 0
    /\ error = <<>>
    /\ run_count = 0
    /\ first_output = NoFile
    /\ pg_out = <<>>
    /\ agg_out = <<>>
    /\ daily_stats_complete = <<>>
    /\ window_out = <<>>

\* lines 106-115
Stage2CreateTargets ==
    /\ pc = "targets"
    /\ LET sorted == sort_values(daily_stats, <<"latitude", "longitude", "date">>)
       IN daily_stats' =
             [k \in 1..Len(sorted) |->
                 [date |-> sorted[k].date,
                  latitude |-> sorted[k].latitude,
                  longitude |-> sorted[k].longitude,
                  x |-> sorted[k].x,
                  y |-> [t \in ToSet(target_cols) |-> ShiftNext(sorted, k, StatOf(t))]]]
    /\ pc' = "dropna"
    /\ UNCHANGED <<df, window_size, gi, input_file, output_file, buffer, total_rows,
                   error, run_count, first_output, pg_out, agg_out,
                   daily_stats_complete, window_out>>

\* lines 117-124
Stage2DropIncomplete ==
    /\ pc = "dropna"
    /\ daily_stats_complete' = dropna(daily_stats, target_cols)
    /\ pc' = "windows"
    /\ UNCHANGED <<df, window_size, gi, input_file, output_file, buffer, total_rows,
                   error, run_count, first_output, pg_out, agg_out, daily_stats,
                   window_out>>

\* lines 126-140
Stage2BuildWindows ==
    /\ pc = "windows"
    /\ window_out' = MergeXY(create_window_features_aggregated(
                                 daily_stats_complete, window_size,
                                 feature_cols, target_cols))
    /\ pc' = "saved"
    /\ UNCHANGED <<df, window_size, gi, input_file, output_file, buffer, total_rows,
                   error, run_count, first_output, pg_out, agg_out, daily_stats,
                   daily_stats_complete>>

NextStage2 == Stage2CreateTargets \/ Stage2DropIncomplete \/ Stage2BuildWindows

SpecStage2 == InitStage2 /\ [][NextStage2]_vars

----------------------------------------------------------------------------
(* Properties.  A location's series is described here by date rank, without *)
(* the sort and the slices of the model.                                    *)

LocRecords(d, loc) == {d[k] : k \in {j \in DOMAIN d : LocOf(d[j]) = loc}}

SeriesLen(d, loc) == Cardinality(LocRecords(d, loc))

\* 0-based position of the record of date dt in its location's series
PosOfDate(d, loc, dt) == Cardinality({q \in LocRecords(d, loc) : q.date < dt})

\* the record at 0-based position i of the series
SeriesAt(d, loc, i) ==
    CHOOSE r \in LocRecords(d, loc) : PosOfDate(d, loc, r.date) = i

\* the series of a location: position |-> record
Series(d, loc) == [p \in 0..(SeriesLen(d, loc) - 1) |-> SeriesAt(d, loc, p)]

RECURSIVE SumOver(_, _, _)
SumOver(S, P, c) ==
    IF P = {} THEN 0
    ELSE LET p == CHOOSE p \in P : TRUE
         IN S[p].x[c] + SumOver(S, P \ {p}, c)

\* st holds the statistics of column c over the positions i-w .. i-1 of series S
StatsAreOver(st, S, i, w, c) ==
    LET P == (i - w)..(i - 1)
        V == {S[p].x[c] : p \in P}
    IN /\ st.mean = <<SumOver(S, P, c), w>>
       /\ st.first = S[i - w].x[c]
       /\ st.last = S[i - 1].x[c]
       /\ st.trend = st.last - st.first
       /\ st.min \in V /\ \A v \in V : st.min <= v
       /\ st.max \in V /\ \A v \in V : st.max >= v

Calls == {pg_out[k] : k \in DOMAIN pg_out}
CallLoc(call) == <<call.latitude, call.longitude>>
EmittedRows == UNION {ToSet(call.out_df) : call \in Calls}

\* C1: process_group over a series of N records emits exactly max(0, N - W) rows
C1_RowCount ==
    \A call \in Calls :
        Len(call.out_df) = Max2(0, SeriesLen(df, CallLoc(call)) - window_size)

C1_Witness ==
    /\ \E call \in Calls :
          SeriesLen(df, CallLoc(call)) <= window_size /\ call.out_df = <<>>
    /\ \E call \in Calls : Len(call.out_df) >= 2

\* C2: no row emitted by process_group has a null target field
C2_NoNullTarget ==
    \A row \in EmittedRows : \A t \in DOMAIN row.y : ~isnan(row.y[t])

\* C3: the j-th row of a location is the row of position i = W + j - 1: its
\* statistics are over positions i-W .. i-1 of that location's date-sorted
\* series, its date and targets are those of position i
C3_StrictlyHistorical ==
    \A call \in Calls :
        LET loc == CallLoc(call)
            S == Series(df, loc)
        IN \A j \in DOMAIN call.out_df :
              LET row == call.out_df[j]
                  i == window_size + j - 1
              IN /\ i < SeriesLen(df, loc)
                 /\ row.latitude = loc[1] /\ row.longitude = loc[2]
                 /\ row.date = S[i].date
                 /\ row.y = S[i].y
                 /\ \A c \in ToSet(feature_cols) :
                       StatsAreOver(row.stats[c], S, i, window_size, c)

\* a row built from an unsorted table that interleaves two locations, with a
\* gap in the dates of its window
C3_Witness ==
    /\ Len(GroupKeys(df)) = 2
    /\ df # sort_values(df, <<"latitude", "longitude", "date">>)
    /\ \E call \in Calls : \E j \in DOMAIN call.out_df :
          /\ j >= 2
          /\ call.out_df[j].date - window_size >
                SeriesAt(df, CallLoc(call), j - 1).date

Recent3dOk(row, d, w) ==
    \A c \in ToSet(feature_cols) :
        LET loc == LocOf(row)
            i == PosOfDate(d, loc, row.date)
        IN /\ ("recent_3d" \in DOMAIN row.stats[c]) <=> (w >= 3)
           /\ (w >= 3) =>
                 row.stats[c].recent_3d =
                    <<SumOver(Series(d, loc), (i - 3)..(i - 1), c), 3>>

C10_BuildersEquivalent ==
    pc = "built" =>
        Flatten([k \in DOMAIN pg_out |-> pg_out[k].out_df]) = agg_out

----------------------------------------------------------------------------
(* Properties of main *)

\* rows of the process_group frames of the first n locations, as main buffers them
FramesUpTo(n) ==
    [k \in 1..n |->
        LET loc == GroupKeys(df)[k]
        IN process_group(loc[1], loc[2], GroupOf(df, loc), window_size,
                         feature_cols, target_cols)]

AllFrames == FramesUpTo(Len(GroupKeys(df)))

\* C4: after the loop and the final flush the output holds the R accumulated
\* rows in order and exactly one header line
C4_PersistedOnce ==
    pc = "done" =>
        /\ output_file.exists
        /\ output_file.header = 1
        /\ output_file.rows = Merged(AllFrames)
        /\ total_rows = Len(Flatten(AllFrames))

\* C5 as claimed: the buffer never holds more than CHUNK_SAVE_SIZE rows
C5_BufferNeverExceeds == BufferedRows(buffer) <= CHUNK_SAVE_SIZE

\* C5: when a batch is about to be accumulated the buffer holds fewer than
\* CHUNK_SAVE_SIZE rows; with the batch just appended it exceeds the threshold
\* by less than that batch; written and buffered rows together are the rows
\* accumulated so far, in order
C5_BufferBounded ==
    /\ pc = "loop" =>
          /\ BufferedRows(buffer) < CHUNK_SAVE_SIZE
          /\ output_file.rows \o Merged(buffer) = Merged(FramesUpTo(gi - 1))
    /\ pc = "check" =>
          /\ buffer # <<>>
          /\ BufferedRows(buffer) - Len(buffer[Len(buffer)]) < CHUNK_SAVE_SIZE
          /\ output_file.rows \o Merged(buffer) = Merged(FramesUpTo(gi))

\* a periodic flush that found more than CHUNK_SAVE_SIZE rows in the buffer
C5_Witness ==
    /\ pc = "loop"
    /\ output_file.exists
    /\ Len(output_file.rows) > CHUNK_SAVE_SIZE
    /\ buffer = <<>>

\* C7: after two or more complete runs the output is as after a single run,
\* with exactly one header line
C7_Idempotent ==
    (pc = "done" /\ run_count >= 2) =>
        /\ output_file = first_output
        /\ output_file.exists
        /\ output_file.header = 1

\* C9: with the input file absent the run aborts with an error naming the file
\* and the concatenation stage, and the output file is left as it was
C9_MissingInput ==
    [][(pc = "start" /\ ~input_file.exists) =>
          /\ pc' = "aborted"
          /\ error'.type = "FileNotFoundError"
          /\ INPUT_FILE \in ToSet(error'.message)
          /\ "03_concat_daily_features.py" \in ToSet(error'.message)
          /\ output_file' = output_file]_vars

C9_Witness == pc = "aborted" /\ output_file.exists /\ output_file.rows # <<>>

----------------------------------------------------------------------------
(* Properties of the next-day targets *)

\* C6: a retained record's {var}_{stat}_next is {var}_{stat} of the record that
\* follows it in its own location's series; the last record of every location
\* is not retained
C6_NextDayTargets ==
    pc \in {"windows", "saved"} =>
        /\ \A k \in DOMAIN daily_stats_complete :
              LET r == daily_stats_complete[k]
                  loc == LocOf(r)
                  i == PosOfDate(daily_stats, loc, r.date)
              IN /\ i + 1 < SeriesLen(daily_stats, loc)
                 /\ \A c \in ToSet(feature_cols) :
                       r.y[NextOf(c)] = <<SeriesAt(daily_stats, loc, i + 1).x[c]>>
        /\ \A loc \in Locations :
              \A k \in DOMAIN daily_stats_complete :
                 LET r == daily_stats_complete[k]
                 IN LocOf(r) = loc =>
                       PosOfDate(daily_stats, loc, r.date) # SeriesLen(daily_stats, loc) - 1

\* two locations, each with retained records and a dropped last record
C6_Witness ==
    /\ pc = "windows"
    /\ Len(GroupKeys(daily_stats_complete)) = 2
    /\ Len(daily_stats) = Len(daily_stats_complete) + 2

====
